---- MODULE Spec2Model ----
(***************************************************************************)
(* Model of pypose/liegroup/lietorch/groups.py: the four GroupType         *)
(* singletons, the LieGroup tensor subclass and the group operations that  *)
(* dispatch through them.                                                  *)
(*                                                                         *)
(* A tensor is a record                                                    *)
(*   gtype         "SO3" | "so3" | "SE3" | "se3" for a LieGroup element,   *)
(*                 "Tensor" for a plain torch.Tensor, "None" for None      *)
(*   shape         the full shape, batch axes then the coordinate axis     *)
(*   data          the coordinates in row-major order                      *)
(*   requires_grad the differentiability flag                              *)
(*   grad_fn       TRUE when the tensor hangs on a differentiation graph   *)
(*                 (it is not a leaf)                                      *)
(* A call returns a record [err, val, kcalls]: err is "ok" or the name of  *)
(* the exception raised, val the returned tensor, kcalls the kernel calls  *)
(* made, in order.                                                         *)
(***************************************************************************)
EXTENDS Integers, Sequences, FiniteSets, TLC

VARIABLES gtypes, ret, last

vars == <<gtypes, ret, last>>

\* ------------------------------------------------------------------ bounds
MaxRank == 2
MaxDim == 2
NumCallers == 2

Callers == 1..NumCallers
Types == {"SO3", "so3", "SE3", "se3"}

RECURSIVE SeqsUpTo(_, _)
SeqsUpTo(S, n) == IF n = 0 THEN {<<>>}
                  ELSE LET shorter == SeqsUpTo(S, n - 1)
                       IN  shorter \cup {Append(s, e) : s \in {q \in shorter : Len(q) = n - 1}, e \in S}

\* batch shapes a caller may ask for; an axis may have size 0
BatchShapes == SeqsUpTo(0..MaxDim, MaxRank)
\* trailing sizes and fill values of the raw arrays a caller may wrap
RawWidths == {3, 4, 6, 7}
RawVals == {0, 1}
\* values a Gaussian draw may take, and the sigma a caller may pass
Draws == {0, 1}
Sigmas == {0, 1, 2}
\* trailing sizes of the point arrays handed to Act
PointWidths == {2, 3, 4}

\* ------------------------------------------------------------------ tensors
RECURSIVE Prod(_)
Prod(s) == IF s = <<>> THEN 1 ELSE Head(s) * Prod(Tail(s))

Numel(t) == Prod(t.shape)
Trailing(t) == t.shape[Len(t.shape)]
\* LieGroup.gshape: the shape without the coordinate axis
gshape(t) == SubSeq(t.shape, 1, Len(t.shape) - 1)

None == [gtype |-> "None", shape |-> <<>>, data |-> <<>>,
         requires_grad |-> FALSE, grad_fn |-> FALSE]

\* torch.tensor([...], requires_grad=rg): a leaf holding one row
TorchTensor(row, rg) ==
    [gtype |-> "Tensor", shape |-> <<Len(row)>>, data |-> row,
     requires_grad |-> rg, grad_fn |-> FALSE]

\* an operation's output is attached to the graph exactly when an input requires grad
Derived(t) == [t EXCEPT !.gtype = "Tensor", !.grad_fn = t.requires_grad]

\* -x : coordinate-wise negation, a plain Tensor (torch function dispatch is disabled)
Neg(x) == [Derived(x) EXCEPT !.data = [i \in DOMAIN x.data |-> 0 - x.data[i]]]

\* x.detach(): same values, cut from the graph, flag cleared
Detach(x) == [x EXCEPT !.gtype = "Tensor", !.requires_grad = FALSE, !.grad_fn = FALSE]

\* data.expand(args + (-1,)) on a one-axis tensor: the row repeated over the batch
Expand(t, args) ==
    LET w == Len(t.data)
    IN  [Derived(t) EXCEPT !.shape = args \o <<w>>,
                           !.data = [j \in 1..(Prod(args) * w) |-> t.data[((j - 1) % w) + 1]]]

\* sigma * torch.randn(*shape): every coordinate is the draw z scaled by sigma
ScaledDraw(shape, sigma, z) ==
    [gtype |-> "Tensor", shape |-> shape, data |-> [j \in 1..Prod(shape) |-> sigma * z],
     requires_grad |-> FALSE, grad_fn |-> FALSE]

\* ------------------------------------------------------------------ results
Ok(v, k) == [err |-> "ok", val |-> v, kcalls |-> k]
Raise(e, k) == [err |-> e, val |-> None, kcalls |-> k]

\* ------------------------------------------------------------------ GroupType
\* an __init__ that stores the data dimension as the embedding size
GroupType__init__DimensionAsEmbedding(groud, dimension, embedding, manifold) ==
    [group |-> groud, dimension |-> dimension, embedding |-> dimension,
     manifold |-> manifold]

\* GroupType.__init__: the four fields of a group type
GroupType__init__(groud, dimension, embedding, manifold) ==
    [group |-> groud, dimension |-> dimension, embedding |-> embedding,
     manifold |-> manifold]

SO3Type__init__ == GroupType__init__(1, 4, 4, 3)
so3Type__init__ == GroupType__init__(1, 3, 4, 3)
SE3Type__init__ == GroupType__init__(3, 7, 7, 6)
se3Type__init__ == GroupType__init__(3, 6, 7, 6)

\* the module-level singletons
SO3_type == "SO3"
so3_type == "so3"
SE3_type == "SE3"
se3_type == "se3"

on_manifold(self) == gtypes[self].dimension = gtypes[self].manifold

\* ------------------------------------------------------------------ LieGroup construction
\* a __new__ that reads the requires_grad keyword instead of keeping data's flag
LieGroup__new__HonoursKeyword(data, requires_grad) ==
    [data EXCEPT !.requires_grad = requires_grad]

\* LieGroup.__new__(cls, data, **kwargs): as_subclass shares data's storage and
\* autograd state; the keywords (requires_grad among them) are not read
LieGroup__new__(data, requires_grad) == data

\* an __init__ that asserts against the type's embedding size instead of its dimension
LieGroup__init__ChecksEmbedding(self, data, gtype) ==
    IF gtype \notin Types THEN Raise("AttributeError", <<>>)
    ELSE IF Trailing(data) = gtypes[gtype].embedding
         THEN Ok([self EXCEPT !.gtype = gtype], <<>>)
         ELSE Raise("AssertionError", <<>>)

\* LieGroup.__init__(self, data, gtype): the dimension assertion, then the tag;
\* gtype=None has no attribute dimension
LieGroup__init__(self, data, gtype) ==
    IF gtype \notin Types THEN Raise("AttributeError", <<>>)
    ELSE IF Trailing(data) = gtypes[gtype].dimension
         THEN Ok([self EXCEPT !.gtype = gtype], <<>>)
         ELSE Raise("AssertionError", <<>>)

\* the constructor call LieGroup(data, gtype=gtype, requires_grad=requires_grad)
LieGroup(data, gtype, requires_grad) ==
    LieGroup__init__(LieGroup__new__(data, requires_grad), data, gtype)

\* Tensor.requires_grad_(r): only a leaf may have its flag cleared
requires_grad_(t, r) ==
    IF t.grad_fn
    THEN IF r THEN Ok(t, <<>>) ELSE Raise("RuntimeError", <<>>)
    ELSE Ok([t EXCEPT !.requires_grad = r], <<>>)

\* ------------------------------------------------------------------ collaborators
\* the sizes a kernel family works with, by group id
KernelEmbedding(group) == IF group = 1 THEN 4 ELSE 7
KernelManifold(group) == IF group = 1 THEN 3 ELSE 6

\* one row through a kernel.  A first-order stand-in that keeps the contract's
\* sizes and identities: exp(0) is the identity, log(exp(v)) = v,
\* inv(inv(q)) = q, inv(exp(v)) = exp(-v).
KernelRow(kernel, row) ==
    CASE kernel = "exp" -> Append(row, 1)
      [] kernel = "log" -> SubSeq(row, 1, Len(row) - 1)
      [] kernel = "inv" -> [i \in DOMAIN row |-> IF i = Len(row) THEN row[i] ELSE 0 - row[i]]

KernelCall(kernel, group, flat) == [kernel |-> kernel, group |-> group, n |-> flat.shape[1]]

\* kernel.apply(group, flat): a flat (N, w) batch in, a flat (N, w') batch out,
\* attached to the graph when the input requires grad; a batch of the wrong
\* width for the group fails as a whole
Apply(kernel, group, flat) ==
    LET n    == flat.shape[1]
        win  == flat.shape[2]
        want == IF kernel = "exp" THEN KernelManifold(group) ELSE KernelEmbedding(group)
        wout == IF kernel = "exp" THEN KernelEmbedding(group)
                ELSE IF kernel = "log" THEN KernelManifold(group)
                ELSE KernelEmbedding(group)
        row(i) == SubSeq(flat.data, (i - 1) * win + 1, i * win)
    IN  IF win # want THEN Raise("RuntimeError", <<KernelCall(kernel, group, flat)>>)
        ELSE Ok([Derived(flat) EXCEPT
                   !.shape = <<n, wout>>,
                   !.data = [j \in 1..(n * wout) |->
                               KernelRow(kernel, row(((j - 1) \div wout) + 1))[((j - 1) % wout) + 1]]],
                <<KernelCall(kernel, group, flat)>>)

\* broadcast_inputs(x, None): the batch axes collapsed to one, and the batch
\* shape to restore afterwards
broadcast_inputs(x) ==
    [inputs    |-> [Derived(x) EXCEPT !.shape = <<Prod(gshape(x)), Trailing(x)>>],
     out_shape |-> gshape(x)]

\* out.view(out_shape + (-1,)): the last size is inferred as numel / prod(out_shape);
\* torch refuses when prod(out_shape) is 0 (the size is ambiguous) or does not
\* divide numel
View(out, out_shape) ==
    LET others == Prod(out_shape)
    IN  IF others = 0 THEN Raise("RuntimeError", <<>>)
        ELSE IF Numel(out) % others # 0 THEN Raise("RuntimeError", <<>>)
        ELSE Ok([Derived(out) EXCEPT !.shape = out_shape \o <<Numel(out) \div others>>], <<>>)

\* the body shared by the kernel-backed methods:
\*   inputs, out_shape = broadcast_inputs(x, None)
\*   out = kernel.apply(group, *inputs)
\*   return LieGroup(out.view(out_shape + (-1,)), gtype=gtype, requires_grad=x.requires_grad)
KernelMethod(kernel, group, x, gtype) ==
    LET b == broadcast_inputs(x)
        k == Apply(kernel, group, b.inputs)
        v == View(k.val, b.out_shape)
        g == LieGroup(v.val, gtype, x.requires_grad)
    IN  IF k.err # "ok" THEN k
        ELSE IF v.err # "ok" THEN Raise(v.err, k.kcalls)
        ELSE [g EXCEPT !.kcalls = k.kcalls]

\* ------------------------------------------------------------------ GroupType methods
\* a Log whose representation test is inverted
GroupType_LogInverted(self, x) ==
    IF ~on_manifold(self) THEN Raise("AttributeError", <<>>)
    ELSE Raise("NotImplementedError", <<>>)

\* GroupType.Log, inherited by so3Type and se3Type
GroupType_Log(self, x) ==
    IF on_manifold(self) THEN Raise("AttributeError", <<>>)
    ELSE Raise("NotImplementedError", <<>>)

\* GroupType.Exp, inherited by SO3Type and SE3Type
GroupType_Exp(self, x) ==
    IF ~on_manifold(self) THEN Raise("AttributeError", <<>>)
    ELSE Raise("NotImplementedError", <<>>)

\* an Inv that negates x.data, the detached values, on the tangent branch
GroupType_InvOfDetached(self, x) ==
    IF on_manifold(self) THEN LieGroup(Neg(Detach(x)), x.gtype, x.requires_grad)
    ELSE KernelMethod("inv", gtypes[self].group, x, x.gtype)

\* GroupType.Inv, inherited by all four types
GroupType_Inv(self, x) ==
    IF on_manifold(self) THEN LieGroup(Neg(x), x.gtype, x.requires_grad)
    ELSE KernelMethod("inv", gtypes[self].group, x, x.gtype)

SO3Type_Log(self, x) == KernelMethod("log", gtypes[self].group, x, so3_type)
SE3Type_Log(self, x) == KernelMethod("log", gtypes[self].group, x, se3_type)
so3Type_Exp(self, x) == KernelMethod("exp", gtypes[self].group, x, SO3_type)
se3Type_Exp(self, x) == KernelMethod("exp", gtypes[self].group, x, SE3_type)

\* method resolution on the class of the singleton
gtype_Log(self, x) ==
    CASE self = SO3_type -> SO3Type_Log(self, x)
      [] self = SE3_type -> SE3Type_Log(self, x)
      [] OTHER -> GroupType_Log(self, x)

gtype_Exp(self, x) ==
    CASE self = so3_type -> so3Type_Exp(self, x)
      [] self = se3_type -> se3Type_Exp(self, x)
      [] OTHER -> GroupType_Exp(self, x)

\* LieGroup.Exp / Log / Inv forward to the element's own type
LieGroup_Exp(x) == gtype_Exp(x.gtype, x)
LieGroup_Log(x) == gtype_Log(x.gtype, x)
LieGroup_Inv(x) == GroupType_Inv(x.gtype, x)

\* ------------------------------------------------------------------ identity
SO3Type_identity(args, requires_grad) ==
    LET data == TorchTensor(<<0, 0, 0, 1>>, requires_grad)
    IN  LieGroup(Expand(data, args), SO3_type, data.requires_grad)

SE3Type_identity(args, requires_grad) ==
    LET data == TorchTensor(<<0, 0, 0, 0, 0, 0, 1>>, requires_grad)
    IN  LieGroup(Expand(data, args), SE3_type, data.requires_grad)

so3Type_identity(args, requires_grad) ==
    LET i == SO3Type_identity(args, requires_grad)
    IN  IF i.err # "ok" THEN i ELSE SO3Type_Log(SO3_type, i.val)

se3Type_identity(args, requires_grad) ==
    LET i == SE3Type_identity(args, requires_grad)
    IN  IF i.err # "ok" THEN i ELSE SE3Type_Log(SE3_type, i.val)

gtype_identity(self, args, requires_grad) ==
    CASE self = SO3_type -> SO3Type_identity(args, requires_grad)
      [] self = so3_type -> so3Type_identity(args, requires_grad)
      [] self = SE3_type -> SE3Type_identity(args, requires_grad)
      [] self = se3_type -> se3Type_identity(args, requires_grad)

\* GroupType.identity_like: cls.identity with the same arguments
GroupType_identity_like(self, args, requires_grad) ==
    gtype_identity(self, args, requires_grad)

\* ------------------------------------------------------------------ randn
\* GroupType.randn: sigma * torch.randn(*args, manifold), a plain tensor
GroupType_randn(self, args, sigma, z) ==
    ScaledDraw(args \o <<gtypes[self].manifold>>, sigma, z)

\* the tail of every randn: LieGroup(data, gtype=gtype).requires_grad_(requires_grad)
WrapLeaf(data, gtype, requires_grad, kcalls) ==
    LET g == LieGroup(data, gtype, FALSE)
        r == requires_grad_(g.val, requires_grad)
    IN  IF g.err # "ok" THEN Raise(g.err, kcalls)
        ELSE IF r.err # "ok" THEN Raise(r.err, kcalls)
        ELSE Ok(r.val, kcalls)

so3Type_randn(self, args, sigma, requires_grad, z) ==
    WrapLeaf(Detach(GroupType_randn(self, args, sigma, z)), so3_type, requires_grad, <<>>)

se3Type_randn(self, args, sigma, requires_grad, z) ==
    WrapLeaf(Detach(GroupType_randn(self, args, sigma, z)), se3_type, requires_grad, <<>>)

SO3Type_randn(self, args, sigma, requires_grad, z) ==
    LET t == so3Type_randn(so3_type, args, sigma, FALSE, z)
        e == so3Type_Exp(so3_type, t.val)
    IN  IF t.err # "ok" THEN t
        ELSE IF e.err # "ok" THEN e
        ELSE WrapLeaf(Detach(e.val), SO3_type, requires_grad, e.kcalls)

SE3Type_randn(self, args, sigma, requires_grad, z) ==
    LET t == se3Type_randn(se3_type, args, sigma, FALSE, z)
        e == se3Type_Exp(se3_type, t.val)
    IN  IF t.err # "ok" THEN t
        ELSE IF e.err # "ok" THEN e
        ELSE WrapLeaf(Detach(e.val), SE3_type, requires_grad, e.kcalls)

gtype_randn(self, args, sigma, requires_grad, z) ==
    CASE self = SO3_type -> SO3Type_randn(self, args, sigma, requires_grad, z)
      [] self = so3_type -> so3Type_randn(self, args, sigma, requires_grad, z)
      [] self = SE3_type -> SE3Type_randn(self, args, sigma, requires_grad, z)
      [] self = se3_type -> se3Type_randn(self, args, sigma, requires_grad, z)

\* GroupType.randn_like: self.randn with sigma fixed to 1, whatever was passed
GroupType_randn_like(self, args, sigma, requires_grad, z) ==
    gtype_randn(self, args, 1, requires_grad, z)

\* ------------------------------------------------------------------ binary operations
\* self.apply_op: neither LieGroup nor torch.Tensor defines apply_op, so the
\* attribute lookup raises before any argument is evaluated or kernel called
LieGroup_apply_op == Raise("AttributeError", <<>>)

\* LieGroup.Mul: self.__class__(self.apply_op(Mul, self.data, other.data))
LieGroup_Mul(self, other) ==
    LET r == LieGroup_apply_op
    IN  IF r.err # "ok" THEN r ELSE LieGroup(r.val, "None", FALSE)

\* LieGroup.Retr: self.__class__.apply_op(Exp, a), then Mul as above
LieGroup_Retr(self, a) ==
    LET r == LieGroup_apply_op
    IN  IF r.err # "ok" THEN r ELSE LieGroup(r.val, "None", FALSE)

LieGroup_Adj(self, a) == LieGroup_apply_op
LieGroup_AdjT(self, a) == LieGroup_apply_op
LieGroup_Jinv(self, a) == LieGroup_apply_op

\* LieGroup.Act: act3 for 3 trailing components, act4 for 4, otherwise the
\* method falls off its end and returns None
LieGroup_Act(self, p) ==
    IF Trailing(p) = 3 THEN LieGroup_apply_op
    ELSE IF Trailing(p) = 4 THEN LieGroup_apply_op
    ELSE Ok(None, <<>>)

\* ------------------------------------------------------------------ state machine
\* gtypes: the fields of the four singletons
\* ret:    what the latest call returned (None when it raised or returned None)
\* last:   the latest call: who made it, the method, its operands and keywords,
\*         how it ended and the kernel calls it made
\*         prev: when the call before it was an Exp, Log or Inv that returned,
\*         that call's caller, method and operand (NoCall otherwise)
NoCall == [caller |-> 0, op |-> "none", arg |-> None]

Before ==
    IF last.op \in {"Exp", "Log", "Inv"} /\ last.err = "ok"
    THEN [caller |-> last.caller, op |-> last.op, arg |-> last.arg]
    ELSE NoCall

Call(t, op, self, arg, other, args, sigma, kw, r) ==
    [caller |-> t, op |-> op, self |-> self, arg |-> arg, other |-> other,
     args |-> args, sigma |-> sigma, kw |-> kw, err |-> r.err, kcalls |-> r.kcalls,
     prev |-> Before]

Returns(t, op, self, arg, other, args, sigma, kw, r) ==
    /\ last' = Call(t, op, self, arg, other, args, sigma, kw, r)
    /\ ret' = r.val
    /\ UNCHANGED gtypes

Init ==
    /\ gtypes = [g \in Types |->
                   CASE g = SO3_type -> SO3Type__init__
                     [] g = so3_type -> so3Type__init__
                     [] g = SE3_type -> SE3Type__init__
                     [] g = se3_type -> se3Type__init__]
    /\ ret = None
    /\ last = [caller |-> 1, op |-> "import", self |-> "None", arg |-> None,
               other |-> None, args |-> <<>>, sigma |-> 1, kw |-> FALSE,
               err |-> "ok", kcalls |-> <<>>, prev |-> NoCall]

\* A caller holds one element at a time: it builds one (by wrapping, identity or
\* randn) when it holds none, works on it, and lets it go out of scope.
Idle == last.op \in {"import", "del"}

\* the raw arrays a caller may hand to the constructor: a leaf with or without
\* the flag, or the output of an earlier differentiable computation
RawArrays ==
    {[gtype |-> "Tensor", shape |-> b \o <<w>>, data |-> [j \in 1..(Prod(b) * w) |-> c],
      requires_grad |-> a[1], grad_fn |-> a[2]] :
        b \in BatchShapes, w \in RawWidths, c \in RawVals,
        a \in {<<FALSE, FALSE>>, <<TRUE, FALSE>>, <<TRUE, TRUE>>}}

IsElement(x) == x.gtype \in Types

\* LieGroup(data, gtype=g, requires_grad=kw) on a raw array
Wrap(t) ==
    /\ Idle
    /\ \E data \in RawArrays, g \in Types, kw \in BOOLEAN :
        Returns(t, "Wrap", g, data, None, <<>>, 1, kw, LieGroup(data, g, kw))

Identity(t) ==
    /\ Idle
    /\ \E g \in Types, args \in BatchShapes, kw \in BOOLEAN :
        Returns(t, "identity", g, None, None, args, 1, kw, gtype_identity(g, args, kw))

IdentityLike(t) ==
    /\ Idle
    /\ \E g \in Types, args \in BatchShapes, kw \in BOOLEAN :
        Returns(t, "identity_like", g, None, None, args, 1, kw,
                GroupType_identity_like(g, args, kw))

Randn(t) ==
    /\ Idle
    /\ \E g \in Types, args \in BatchShapes, sigma \in Sigmas, kw \in BOOLEAN, z \in Draws :
        Returns(t, "randn", g, None, None, args, sigma, kw,
                gtype_randn(g, args, sigma, kw, z))

RandnLike(t) ==
    /\ Idle
    /\ \E g \in Types, args \in BatchShapes, sigma \in Sigmas, kw \in BOOLEAN, z \in Draws :
        Returns(t, "randn_like", g, None, None, args, sigma, kw,
                GroupType_randn_like(g, args, sigma, kw, z))

Exp(t) ==
    /\ IsElement(ret)
    /\ Returns(t, "Exp", ret.gtype, ret, None, <<>>, 1, FALSE, LieGroup_Exp(ret))

Log(t) ==
    /\ IsElement(ret)
    /\ Returns(t, "Log", ret.gtype, ret, None, <<>>, 1, FALSE, LieGroup_Log(ret))

Inv(t) ==
    /\ IsElement(ret)
    /\ Returns(t, "Inv", ret.gtype, ret, None, <<>>, 1, FALSE, LieGroup_Inv(ret))

\* g.Mul(identity()), identity().Mul(g) and g.Mul(g)
Mul(t) ==
    /\ IsElement(ret)
    /\ LET id == gtype_identity(ret.gtype, <<>>, FALSE).val
       IN  \/ Returns(t, "Mul", ret.gtype, ret, id, <<>>, 1, FALSE, LieGroup_Mul(ret, id))
           \/ Returns(t, "Mul", ret.gtype, id, ret, <<>>, 1, FALSE, LieGroup_Mul(id, ret))
           \/ Returns(t, "Mul", ret.gtype, ret, ret, <<>>, 1, FALSE, LieGroup_Mul(ret, ret))

\* the tangent increment handed to Retr, Adj, AdjT and Jinv
Increment(x, c) == ScaledDraw(<<gtypes[x.gtype].manifold>>, 1, c)

Retr(t) ==
    /\ IsElement(ret)
    /\ \E c \in RawVals :
         Returns(t, "Retr", ret.gtype, ret, Increment(ret, c), <<>>, 1, FALSE,
                 LieGroup_Retr(ret, Increment(ret, c)))

Adj(t) ==
    /\ IsElement(ret)
    /\ \E c \in RawVals :
         Returns(t, "Adj", ret.gtype, ret, Increment(ret, c), <<>>, 1, FALSE,
                 LieGroup_Adj(ret, Increment(ret, c)))

AdjT(t) ==
    /\ IsElement(ret)
    /\ \E c \in RawVals :
         Returns(t, "AdjT", ret.gtype, ret, Increment(ret, c), <<>>, 1, FALSE,
                 LieGroup_AdjT(ret, Increment(ret, c)))

Jinv(t) ==
    /\ IsElement(ret)
    /\ \E c \in RawVals :
         Returns(t, "Jinv", ret.gtype, ret, Increment(ret, c), <<>>, 1, FALSE,
                 LieGroup_Jinv(ret, Increment(ret, c)))

Act(t) ==
    /\ IsElement(ret)
    /\ \E w \in PointWidths, c \in RawVals :
         LET p == ScaledDraw(<<w>>, 1, c)
         IN  Returns(t, "Act", ret.gtype, ret, p, <<>>, 1, FALSE, LieGroup_Act(ret, p))

\* the element in hand goes out of scope
Release(t) ==
    /\ ~Idle
    /\ last' = [caller |-> t, op |-> "del", self |-> "None", arg |-> None,
                other |-> None, args |-> <<>>, sigma |-> 1, kw |-> FALSE,
                err |-> "ok", kcalls |-> <<>>, prev |-> NoCall]
    /\ ret' = None
    /\ UNCHANGED gtypes

Next ==
    \E t \in Callers :
        \/ Release(t)
        \/ Wrap(t)
        \/ Identity(t)
        \/ IdentityLike(t)
        \/ Randn(t)
        \/ RandnLike(t)
        \/ Exp(t)
        \/ Log(t)
        \/ Inv(t)
        \/ Mul(t)
        \/ Retr(t)
        \/ Adj(t)
        \/ AdjT(t)
        \/ Jinv(t)
        \/ Act(t)

Spec == Init /\ [][Next]_vars

\* ------------------------------------------------------------------ properties
TangentTypes == {so3_type, se3_type}
ManifoldTypes == {SO3_type, SE3_type}

\* the other representation of the same group
ManifoldTypeOf(g) == IF g \in {SO3_type, so3_type} THEN SO3_type ELSE SE3_type
TangentTypeOf(g) == IF g \in {SO3_type, so3_type} THEN so3_type ELSE se3_type

\* the dimensions and fields the documentation gives the four types
DocumentedDimension(g) ==
    CASE g = "SO3" -> 4 [] g = "so3" -> 3 [] g = "SE3" -> 7 [] g = "se3" -> 6

DocumentedFields(g) ==
    CASE g = "SO3" -> [group |-> 1, dimension |-> 4, embedding |-> 4, manifold |-> 3]
      [] g = "so3" -> [group |-> 1, dimension |-> 3, embedding |-> 4, manifold |-> 3]
      [] g = "SE3" -> [group |-> 3, dimension |-> 7, embedding |-> 7, manifold |-> 6]
      [] g = "se3" -> [group |-> 3, dimension |-> 6, embedding |-> 7, manifold |-> 6]

Returned == last.err = "ok"
OneKernelCall(kernel, x) ==
    last.kcalls = <<[kernel |-> kernel, group |-> gtypes[x.gtype].group, n |-> Prod(gshape(x))]>>

\* the identity element of x's type and batch shape
IsIdentityElement(x) ==
    /\ IsElement(x)
    /\ LET w == gtypes[x.gtype].dimension
       IN  \A j \in DOMAIN x.data :
              x.data[j] = IF x.gtype \in ManifoldTypes /\ ((j - 1) % w) + 1 = w THEN 1 ELSE 0

HasDimension(x) ==
    /\ Trailing(x) = gtypes[x.gtype].dimension
    /\ Trailing(x) = DocumentedDimension(x.gtype)

\* C1: every element in existence -- wrapped from a raw array, made by identity
\* or randn, or returned by any chain of Exp, Log and Inv -- has as its last
\* axis the dimension of its type (SO3 4, so3 3, SE3 7, se3 6); wrapping a raw
\* array whose last axis differs from the type's dimension raises at
\* construction and yields no element.
TrailingAxisIsDimension ==
    /\ IsElement(ret) => HasDimension(ret)
    /\ IsElement(last.arg) => HasDimension(last.arg)
    /\ IsElement(last.prev.arg) => HasDimension(last.prev.arg)
    /\ last.op = "Wrap" /\ Trailing(last.arg) # DocumentedDimension(last.self)
         => last.err = "AssertionError" /\ ret = None

\* an SE3 element of a two-axis batch returned by Inv applied after Exp
TrailingAxisWitness ==
    /\ last.op = "Inv" /\ Returned /\ last.prev.op = "Exp"
    /\ ret.gtype = "SE3" /\ ret.shape = <<2, 1, 7>>

\* C2: Exp on an element of an embedding type (SO3, SE3) and Log on an element
\* of a tangent type (so3, se3) raise the representation-inapplicable error
\* (AttributeError, not NotImplementedError), call no kernel and return nothing.
InapplicableRaisesAttributeError ==
    /\ last.op = "Exp" /\ last.arg.gtype \in ManifoldTypes
         => last.err = "AttributeError" /\ last.kcalls = <<>> /\ ret = None
    /\ last.op = "Log" /\ last.arg.gtype \in TangentTypes
         => last.err = "AttributeError" /\ last.kcalls = <<>> /\ ret = None

\* Log was called on the se3 element that Log of an SE3 element had returned
InapplicableWitness ==
    /\ last.op = "Log" /\ last.arg.gtype = "se3" /\ last.err = "AttributeError"
    /\ last.prev.op = "Log" /\ last.prev.arg.gtype = "SE3"

\* C3: Exp on a tangent element calls the exp kernel of the element's group
\* once and returns an element of the manifold type of that group with the
\* input's batch shape; Log on a manifold element does the same with the log
\* kernel and the tangent type; so Log(Exp(t)) has the tag and batch shape of t
\* and Exp(Log(g)) those of g.
ExpLogRewrap ==
    /\ last.op = "Exp" /\ last.arg.gtype \in TangentTypes
         => /\ Returned /\ OneKernelCall("exp", last.arg)
            /\ ret.gtype = ManifoldTypeOf(last.arg.gtype)
            /\ gtypes[ret.gtype].group = gtypes[last.arg.gtype].group
            /\ gshape(ret) = gshape(last.arg)
    /\ last.op = "Log" /\ last.arg.gtype \in ManifoldTypes
         => /\ Returned /\ OneKernelCall("log", last.arg)
            /\ ret.gtype = TangentTypeOf(last.arg.gtype)
            /\ gtypes[ret.gtype].group = gtypes[last.arg.gtype].group
            /\ gshape(ret) = gshape(last.arg)
    /\ last.op = "Log" /\ last.prev.op = "Exp"
         => /\ Returned
            /\ ret.gtype = last.prev.arg.gtype /\ gshape(ret) = gshape(last.prev.arg)
    /\ last.op = "Exp" /\ last.prev.op = "Log"
         => /\ Returned
            /\ ret.gtype = last.prev.arg.gtype /\ gshape(ret) = gshape(last.prev.arg)

\* C4: Inv returns, for an element of any of the four types, an element of the
\* same type and batch shape: on a tangent type the coordinate-wise negation,
\* with no kernel call, so that Inv(Inv(t)) = t; on a manifold type the output
\* of exactly one inv kernel call of the type's group.
InvSameTypeAndShape ==
    last.op = "Inv"
      => /\ Returned
         /\ ret.gtype = last.arg.gtype /\ gshape(ret) = gshape(last.arg)
         /\ last.arg.gtype \in TangentTypes
              => /\ last.kcalls = <<>>
                 /\ ret.data = [j \in DOMAIN last.arg.data |-> 0 - last.arg.data[j]]
                 /\ last.prev.op = "Inv" => ret.data = last.prev.arg.data
         /\ last.arg.gtype \in ManifoldTypes => OneKernelCall("inv", last.arg)

\* C5: a group operation that returns an element returns one whose
\* requires_grad flag is the OR of its operands' flags; for Exp, Log and Inv
\* the output requires grad exactly when the input does.
GradFlagPropagates ==
    /\ last.op \in {"Exp", "Log", "Inv"} /\ Returned
         => ret.requires_grad = last.arg.requires_grad
    /\ last.op \in {"Mul", "Retr", "Adj", "AdjT", "Jinv", "Act"} /\ Returned /\ ret # None
         => ret.requires_grad = (last.arg.requires_grad \/ last.other.requires_grad)

\* Inv of a tangent element that requires grad returned one that requires grad
GradFlagWitness ==
    /\ last.op = "Inv" /\ Returned /\ last.arg.gtype = "so3"
    /\ last.arg.requires_grad /\ ret.requires_grad /\ Numel(ret) > 0

\* C6: randn on any of the four types, for any batch shape and any requested
\* flag r, returns an element of that type and batch shape that is a leaf (no
\* grad_fn) with requires_grad = r, on the tangent path and on the manifold
\* path alike.
RandnFreshLeaf ==
    last.op = "randn"
      => /\ Returned
         /\ ret.gtype = last.self /\ gshape(ret) = last.args
         /\ ~ret.grad_fn /\ ret.requires_grad = last.kw

\* C7: for a manifold element g of any batch shape, g.Mul(identity()) and
\* identity().Mul(g) return an element equal to g with g's type.
MulIdentityIsNeutral ==
    /\ last.op = "Mul" /\ last.self \in ManifoldTypes /\ IsIdentityElement(last.other)
         => /\ Returned
            /\ ret.gtype = last.arg.gtype /\ ret.shape = last.arg.shape
            /\ ret.data = last.arg.data
    /\ last.op = "Mul" /\ last.self \in ManifoldTypes /\ IsIdentityElement(last.arg)
         => /\ Returned
            /\ ret.gtype = last.other.gtype /\ ret.shape = last.other.shape
            /\ ret.data = last.other.data

\* C8: Act of the identity element of a manifold type returns the point it was
\* given, through act3 for a 3-component point and act4 for a 4-component one.
ActIdentityFixesPoint ==
    last.op = "Act" /\ last.self \in ManifoldTypes /\ IsIdentityElement(last.arg)
                    /\ Trailing(last.other) \in {3, 4}
      => /\ Returned
         /\ ret.shape = last.other.shape /\ ret.data = last.other.data
         /\ Len(last.kcalls) = 1
         /\ last.kcalls[1].kernel = (IF Trailing(last.other) = 3 THEN "act3" ELSE "act4")

\* C9: whatever calls the callers make and however they interleave, the fields
\* of the four singletons stay SO3 = (1,4,4,3), so3 = (1,3,4,3), SE3 = (3,7,7,6),
\* se3 = (3,6,7,6); on_manifold holds exactly for so3 and se3, and dimension =
\* embedding for SO3 and SE3.
SingletonsNeverModified ==
    /\ \A g \in Types : gtypes[g] = DocumentedFields(g)
    /\ \A g \in Types : on_manifold(g) <=> g \in TangentTypes
    /\ \A g \in ManifoldTypes : gtypes[g].dimension = gtypes[g].embedding

\* one caller's Inv has returned on the element another caller's Exp produced
SingletonsWitness ==
    /\ last.op = "Inv" /\ Returned /\ last.prev.op = "Exp"
    /\ last.caller # last.prev.caller /\ Len(last.kcalls) = 1

\* C10: the requires_grad keyword of the constructor has no effect: the element
\* built from a backing array has the array's own flag for either keyword
\* value, so two constructions that differ only in the keyword agree.
WrapKeepsDataFlag ==
    last.op = "Wrap" /\ Returned => ret.requires_grad = last.arg.requires_grad

\* an array without the flag was wrapped with requires_grad=True
WrapKeywordWitness ==
    /\ last.op = "Wrap" /\ Returned /\ last.kw /\ ~last.arg.requires_grad
    /\ ret.gtype = "SO3" /\ Numel(ret) > 0

====
